---- MODULE Spec2Model ----
(***************************************************************************)
(* Model of textsumm/models/transformers/datasets.py:                      *)
(*   _preprocess, parallel_preprocess, SummarizationDataset and            *)
(*   IterableSummarizationDataset.                                         *)
(*                                                                         *)
(* A text is a sequence of characters; "n" stands for the line break that  *)
(* a line read from a file carries.  Python's None is the string "None"    *)
(* for a tokenizer, <<"None">> for a pipeline or a result slot.            *)
(*                                                                         *)
(* Three specifications share the module: SpecPP (one call of              *)
(* parallel_preprocess on a process pool), SpecDS (the life of one         *)
(* SummarizationDataset) and SpecIter (the life of one                     *)
(* IterableSummarizationDataset).                                          *)
(***************************************************************************)
EXTENDS Integers, Sequences, FiniteSets, TLC

\* ------------------------------------------------------------------ bounds
MaxItems == 2
MaxCpu == 2
MaxFile == 2
MaxMem == 1
MaxIterFile == 2
MaxTargetFile == 1
MaxPasses == 2

\* ------------------------------------------------------------- value space
PyNone == <<"None">>

\* lines as a file holds them, and strings a caller passes in a list
FileLines == { <<"n">>, <<"a", "n">> }

MemTexts == { <<>>, <<"b">> }

Texts == FileLines \cup MemTexts

Pipelines == { PyNone, <<"strip">>, <<"strip", "ascii">> }

Tokenizers == { "None", "split" }

Min(a, b) == IF a <= b THEN a ELSE b

Max(a, b) == IF a >= b THEN a ELSE b

SeqsUpTo(S, n) == UNION { [1..k -> S] : k \in 0..n }

\* A caller's transform: "strip" removes line breaks, "ascii" passes its
\* argument through and raises on the character "b".
ApplyFn(function, sentences) ==
    IF function = "strip"
    THEN SelectSeq(sentences, LAMBDA c : c # "n")
    ELSE sentences

FnRaises(function, sentences) ==
    function = "ascii" /\ \E i \in 1..Len(sentences) : sentences[i] = "b"

\* A caller's tokenizer, applied to one element of the processed value.
WordTokenize(sentence) == << sentence >>

\* ------------------------------------------------------------ _preprocess
RECURSIVE Chain(_, _)
Chain(sentences, pipeline) ==
    IF pipeline = <<>> THEN sentences
    ELSE Chain(ApplyFn(Head(pipeline), sentences), Tail(pipeline))

RECURSIVE ChainRaises(_, _)
ChainRaises(sentences, pipeline) ==
    IF pipeline = <<>> THEN FALSE
    ELSE \/ FnRaises(Head(pipeline), sentences)
         \/ ChainRaises(ApplyFn(Head(pipeline), sentences), Tail(pipeline))

Piped(sentences, pipeline) ==
    IF pipeline = PyNone THEN sentences ELSE Chain(sentences, pipeline)

PreprocessRaises(sentences, pipeline) ==
    pipeline # PyNone /\ ChainRaises(sentences, pipeline)

Tokens(sentences) == [ i \in 1..Len(sentences) |-> WordTokenize(sentences[i]) ]

_preprocess(sentences, pipeline, tok) ==
    IF tok = "None"
    THEN Piped(sentences, pipeline)
    ELSE << Piped(sentences, pipeline), Tokens(Piped(sentences, pipeline)) >>

\* --------------------------------------------------------------- variables
VARIABLES
    \* parallel_preprocess
    pc, input_data, preprocess_pipeline, word_tokenize, num_pool_arg,
    workers, num_pool, pool, chunksize, chunks, value, success, results,
    order,  \* history: the chunks in the order their workers finished
    \* SummarizationDataset
    ds_pc, ds_error, top_n, ds_tokenize, n_processes,
    _source_txt, _source, _target_txt, _target,
    target_none,      \* self._target_txt is None
    source_from,      \* history: the input line each entry of _source came from
    source_txt_from,  \* history: the input line each entry of _source_txt came from
    last_op, last_arg,
    ret,          \* what the last operation returned or wrote
    len_before,   \* history: length() before the last operation
    \* IterableSummarizationDataset
    it_pc, it_lines, it_top_n, it_preprocessing, it_tokenization,
    src_pos,    \* lines the source line iterator has handed out
    src_done,   \* the generator self._source has finished
    passes,     \* the generators __iter__ has returned: "open" or "done"
    tgt_present, tgt_lines, tgt_pos, tgt_done,
    yielded     \* history: every item self._source has yielded, with its line

ppvars == << pc, input_data, preprocess_pipeline, word_tokenize, num_pool_arg,
             workers, num_pool, pool, chunksize, chunks, value, success, results,
             order >>

dsvars == << ds_pc, ds_error, top_n, ds_tokenize, n_processes,
             _source_txt, _source, _target_txt, _target, target_none,
             source_from, source_txt_from, last_op, last_arg, ret, len_before >>

itvars == << it_pc, it_lines, it_top_n, it_preprocessing, it_tokenization,
             src_pos, src_done, passes, tgt_present, tgt_lines, tgt_pos, tgt_done,
             yielded >>

vars == << ppvars, dsvars, itvars >>

\* a SummarizationDataset whose constructor has just been entered
NoRet == [ kind |-> "none" ]

DSNew ==
    /\ ds_pc = "read_source"
    /\ ds_error = "none"
    /\ top_n = -1
    /\ ds_tokenize = "None"
    /\ n_processes = -1
    /\ _source_txt = <<>>
    /\ _source = <<>>
    /\ _target_txt = <<>>
    /\ _target = <<>>
    /\ target_none = FALSE
    /\ source_from = <<>>
    /\ source_txt_from = <<>>
    /\ last_op = "none"
    /\ last_arg = 0
    /\ ret = NoRet
    /\ len_before = 0

\* no IterableSummarizationDataset yet
ItNew ==
    /\ it_pc = "new"
    /\ it_lines = <<>>
    /\ it_top_n = -1
    /\ it_preprocessing = PyNone
    /\ it_tokenization = "None"
    /\ src_pos = 0
    /\ src_done = FALSE
    /\ passes = <<>>
    /\ tgt_present = FALSE
    /\ tgt_lines = <<>>
    /\ tgt_pos = 0
    /\ tgt_done = FALSE
    /\ yielded = <<>>

\* ------------------------------------------------------ parallel_preprocess
NumPoolArgs == (-2)..MaxCpu

\* lines 296-297: -1 resolves to cpu_count()
ResolveWorkers(arg, cpus) == IF arg = -1 THEN cpus ELSE arg

\* Mutant of ClampPool: the worker count is not clamped to the item count.
ClampPoolUnclamped(n, len) == n

\* line 299
ClampPool(n, len) == Min(n, len)

\* line 310: min(1, int(len(input_data) / num_pool))
ChunkSize(len, n) == Min(1, len \div n)

\* MapResult._number_left at creation
NumChunks(len, size) ==
    IF size <= 0 THEN 0 ELSE (len \div size) + (IF len % size = 0 THEN 0 ELSE 1)

ChunkItems(k, size, len) == ((k - 1) * size + 1)..Min(k * size, len)

ChunkRaises(k) ==
    \E i \in ChunkItems(k, chunksize, Len(input_data)) :
        PreprocessRaises(input_data[i], preprocess_pipeline)

PPIdle ==
    /\ pc = "idle"
    /\ input_data = <<>>
    /\ preprocess_pipeline = PyNone
    /\ word_tokenize = "None"
    /\ num_pool_arg = -1
    /\ workers = 0
    /\ num_pool = 0
    /\ pool = "none"
    /\ chunksize = 0
    /\ chunks = <<>>
    /\ value = <<>>
    /\ success = TRUE
    /\ results = <<>>
    /\ order = <<>>

\* the call, lines 281-299
Call ==
    /\ UNCHANGED << dsvars, itvars >>
    /\ pc = "idle"
    /\ \E data \in SeqsUpTo(Texts, MaxItems), pipeline \in Pipelines,
          tok \in Tokenizers, arg \in NumPoolArgs, cpus \in 1..MaxCpu :
        /\ input_data' = data
        /\ preprocess_pipeline' = pipeline
        /\ word_tokenize' = tok
        /\ num_pool_arg' = arg
        /\ workers' = ResolveWorkers(arg, cpus)
        /\ num_pool' = ClampPool(ResolveWorkers(arg, cpus), Len(data))
    /\ pc' = "create"
    /\ UNCHANGED << pool, chunksize, chunks, value, success, results, order >>

\* line 301: Pool(num_pool) raises ValueError for fewer than one process
CreatePool ==
    /\ UNCHANGED << dsvars, itvars >>
    /\ pc = "create"
    /\ IF num_pool < 1
       THEN pc' = "raised" /\ pool' = "none"
       ELSE pc' = "dispatch" /\ pool' = "open"
    /\ UNCHANGED << input_data, preprocess_pipeline, word_tokenize, num_pool_arg,
                    workers, num_pool, chunksize, chunks, value, success, results, order >>

\* lines 303-311: p.map cuts the input into chunks and queues them
MapDispatch ==
    /\ UNCHANGED << dsvars, itvars >>
    /\ pc = "dispatch"
    /\ chunksize' = ChunkSize(Len(input_data), num_pool)
    /\ chunks' = [ k \in 1..NumChunks(Len(input_data), chunksize') |-> "queued" ]
    /\ value' = [ i \in 1..Len(input_data) |-> PyNone ]
    /\ success' = TRUE
    /\ pc' = "map"
    /\ UNCHANGED << input_data, preprocess_pipeline, word_tokenize, num_pool_arg,
                    workers, num_pool, pool, results, order >>

Running == { k \in 1..Len(chunks) : chunks[k] = "running" }

\* a free worker process takes the next chunk off the task queue
WorkerTake ==
    /\ UNCHANGED << dsvars, itvars >>
    /\ pc = "map"
    /\ Cardinality(Running) < num_pool
    /\ \E k \in 1..Len(chunks) :
        /\ chunks[k] = "queued"
        /\ \A j \in 1..(k - 1) : chunks[j] # "queued"
        /\ chunks' = [ chunks EXCEPT ![k] = "running" ]
    /\ UNCHANGED << pc, input_data, preprocess_pipeline, word_tokenize, num_pool_arg,
                    workers, num_pool, pool, chunksize, value, success, results, order >>

\* Mutant of Store: the result goes to the first free place, so the list
\* is in completion order (what imap_unordered would give).
StoreInCompletionOrder(val, k, size, res) ==
    LET free == { i \in 1..Len(val) : val[i] = PyNone }
        at == IF free = {} THEN Len(val) + 1
              ELSE CHOOSE i \in free : \A j \in free : i <= j
    IN  [ i \in 1..Len(val) |->
            IF i >= at /\ i < at + Len(res) THEN res[i - at + 1] ELSE val[i] ]

\* where p.map puts the result of chunk k (MapResult._set): at the chunk's
\* own place in the list
Store(val, k, size, res) ==
    [ i \in 1..Len(val) |->
        IF i \in ChunkItems(k, size, Len(val)) THEN res[i - (k - 1) * size]
        ELSE val[i] ]

ChunkResult(k) ==
    LET items == ChunkItems(k, chunksize, Len(input_data))
        first == (k - 1) * chunksize
    IN  [ j \in 1..Cardinality(items) |->
            _preprocess(input_data[first + j], preprocess_pipeline, word_tokenize) ]

\* a worker finishes its chunk, in any order among the running ones
WorkerFinish ==
    /\ UNCHANGED << dsvars, itvars >>
    /\ pc = "map"
    /\ \E k \in Running :
        /\ order' = Append(order, k)
        /\ IF ChunkRaises(k)
           THEN /\ chunks' = [ chunks EXCEPT ![k] = "failed" ]
                /\ success' = FALSE
                /\ UNCHANGED value
           ELSE /\ chunks' = [ chunks EXCEPT ![k] = "done" ]
                /\ value' = IF success
                            THEN Store(value, k, chunksize, ChunkResult(k))
                            ELSE value
                /\ UNCHANGED success
    /\ UNCHANGED << pc, input_data, preprocess_pipeline, word_tokenize, num_pool_arg,
                    workers, num_pool, pool, chunksize, results >>

\* p.map returns once no chunk is left, or raises the first failure
MapReturn ==
    /\ UNCHANGED << dsvars, itvars >>
    /\ pc = "map"
    /\ \A k \in 1..Len(chunks) : chunks[k] \in { "done", "failed" }
    /\ IF success
       THEN pc' = "close" /\ results' = value
       ELSE pc' = "raised" /\ UNCHANGED results
    /\ UNCHANGED << input_data, preprocess_pipeline, word_tokenize, num_pool_arg,
                    workers, num_pool, pool, chunksize, chunks, value, success, order >>

\* line 312
PoolClose ==
    /\ UNCHANGED << dsvars, itvars >>
    /\ pc = "close"
    /\ pool' = "closed"
    /\ pc' = "join"
    /\ UNCHANGED << input_data, preprocess_pipeline, word_tokenize, num_pool_arg,
                    workers, num_pool, chunksize, chunks, value, success, results, order >>

\* lines 313-315
PoolJoinReturn ==
    /\ UNCHANGED << dsvars, itvars >>
    /\ pc = "join"
    /\ pool' = "joined"
    /\ pc' = "returned"
    /\ UNCHANGED << input_data, preprocess_pipeline, word_tokenize, num_pool_arg,
                    workers, num_pool, chunksize, chunks, value, success, results, order >>

InitPP == PPIdle /\ DSNew /\ ItNew

NextPP ==
    \/ Call
    \/ CreatePool
    \/ MapDispatch
    \/ WorkerTake
    \/ WorkerFinish
    \/ MapReturn
    \/ PoolClose
    \/ PoolJoinReturn

SpecPP == InitPP /\ [][NextPP]_vars

\* ---------------------------------------------------- SummarizationDataset
TopNs == (-2)..MaxFile

\* itertools.islice(f, top_n) / f.readlines(), lines 147-150
ReadLines(lines, n) ==
    IF n = -1 THEN lines ELSE SubSeq(lines, 1, Min(n, Len(lines)))

\* the constructor raised: no instance exists
Fail(error) ==
    /\ ds_pc' = "failed"
    /\ ds_error' = error
    /\ top_n' = -1
    /\ n_processes' = -1

\* lines 144-152
ReadSource ==
    /\ ds_pc = "read_source"
    /\ \E exists \in BOOLEAN, lines \in SeqsUpTo(FileLines, MaxFile),
          n \in TopNs, source \in SeqsUpTo(MemTexts, MaxMem) :
        /\ exists \/ lines = <<>>
        /\ IF exists /\ n < -1
           THEN /\ Fail("ValueError")
                /\ UNCHANGED _source_txt
           ELSE /\ _source_txt' = ReadLines(lines, n) \o source
                /\ top_n' = n
                /\ ds_pc' = "read_target"
                /\ UNCHANGED << ds_error, n_processes >>
    /\ UNCHANGED << ds_tokenize, _source, _target_txt, _target, target_none,
                    source_from, source_txt_from, last_op, last_arg, ret, len_before >>
    /\ UNCHANGED << ppvars, itvars >>

\* lines 154-162
ReadTarget ==
    /\ ds_pc = "read_target"
    /\ \E exists \in BOOLEAN, lines \in SeqsUpTo(FileLines, MaxFile),
          target \in SeqsUpTo(MemTexts, MaxMem) :
        /\ exists \/ lines = <<>>
        /\ IF exists /\ top_n < -1
           THEN /\ Fail("ValueError")
                /\ UNCHANGED _target_txt
           ELSE /\ _target_txt' = ReadLines(lines, top_n) \o target
                /\ top_n' = -1
                /\ ds_pc' = "check"
                /\ UNCHANGED << ds_error, n_processes >>
    /\ UNCHANGED << ds_tokenize, _source_txt, _source, _target, target_none,
                    source_from, source_txt_from, last_op, last_arg, ret, len_before >>
    /\ UNCHANGED << ppvars, itvars >>

\* Mutant of LengthsAgree: the line counts are not compared.
LengthsNotCompared(src, tgt) == TRUE

\* line 167
LengthsAgree(src, tgt) == Len(src) = Len(tgt)

\* lines 164-167
CheckLengths ==
    /\ ds_pc = "check"
    /\ IF Len(_target_txt) = 0
       THEN /\ target_none' = TRUE
            /\ ds_pc' = "process_source"
            /\ UNCHANGED << ds_error, top_n, n_processes >>
       ELSE /\ target_none' = FALSE
            /\ IF LengthsAgree(_source_txt, _target_txt)
               THEN /\ ds_pc' = "process_source"
                    /\ UNCHANGED << ds_error, top_n, n_processes >>
               ELSE Fail("AssertionError")
    /\ UNCHANGED << ds_tokenize, _source_txt, _source, _target_txt, _target,
                    source_from, source_txt_from, last_op, last_arg, ret, len_before >>
    /\ UNCHANGED << ppvars, itvars >>

\* parallel_preprocess as its caller sees it: whether the call raises, and
\* the list it returns (SpecPP, PP_Summary)
PPRaises(data, pipeline, n, cpus) ==
    \/ ClampPool(ResolveWorkers(n, cpus), Len(data)) < 1
    \/ \E i \in 1..Len(data) : PreprocessRaises(data[i], pipeline)

PPResult(data, pipeline, tok) ==
    [ i \in 1..Len(data) |-> _preprocess(data[i], pipeline, tok) ]

Indices(seq) == [ i \in 1..Len(seq) |-> i ]

\* filter(lambda x: len(x[0]) > 0, result), by index
KeptFirst(result) == SelectSeq(Indices(result), LAMBDA i : Len(result[i][1]) > 0)

\* filter(lambda x: len(x[1]) > 0, result), by index
KeptSecond(result) == SelectSeq(Indices(result), LAMBDA i : Len(result[i][2]) > 0)

\* filter(lambda x: len(x) > 0, result), by index
KeptWhole(result) == SelectSeq(Indices(result), LAMBDA i : Len(result[i]) > 0)

\* lines 182-185: without a tokenizer _source_txt is left as read
RawTextKept(result) == Indices(result)

\* lines 169-185
ProcessSource ==
    /\ ds_pc = "process_source"
    /\ \E pipeline \in Pipelines, tok \in Tokenizers, n \in NumPoolArgs,
          cpus \in 1..MaxCpu :
        IF PPRaises(_source_txt, pipeline, n, cpus)
        THEN /\ Fail("PoolError")
             /\ UNCHANGED << ds_tokenize, _source_txt, _source,
                             source_from, source_txt_from >>
        ELSE LET result == PPResult(_source_txt, pipeline, tok) IN
             /\ ds_tokenize' = tok
             /\ n_processes' = n
             /\ IF tok # "None"
                THEN /\ source_txt_from' = KeptFirst(result)
                     /\ _source_txt' =
                          [ j \in 1..Len(KeptFirst(result)) |->
                                result[KeptFirst(result)[j]][1] ]
                     /\ source_from' = KeptSecond(result)
                     /\ _source' =
                          [ j \in 1..Len(KeptSecond(result)) |->
                                result[KeptSecond(result)[j]][2] ]
                ELSE /\ source_txt_from' = RawTextKept(result)
                     /\ _source_txt' =
                          [ j \in 1..Len(RawTextKept(result)) |->
                                _source_txt[RawTextKept(result)[j]] ]
                     /\ source_from' = KeptWhole(result)
                     /\ _source' =
                          [ j \in 1..Len(KeptWhole(result)) |->
                                result[KeptWhole(result)[j]] ]
             /\ ds_pc' = "process_target"
             /\ UNCHANGED << ds_error, top_n >>
    /\ UNCHANGED << _target_txt, _target, target_none,
                    last_op, last_arg, ret, len_before >>
    /\ UNCHANGED << ppvars, itvars >>

\* lines 187-207
ProcessTarget ==
    /\ ds_pc = "process_target"
    /\ IF target_none \/ Len(_target_txt) = 0
       THEN /\ ds_pc' = "ready"
            /\ n_processes' = -1
            /\ UNCHANGED << ds_error, top_n, _target_txt, _target >>
       ELSE \E pipeline \in Pipelines, cpus \in 1..MaxCpu :
            IF PPRaises(_target_txt, pipeline, n_processes, cpus)
            THEN /\ Fail("PoolError")
                 /\ UNCHANGED << _target_txt, _target >>
            ELSE LET result == PPResult(_target_txt, pipeline, ds_tokenize) IN
                 /\ IF ds_tokenize # "None"
                    THEN /\ _target_txt' =
                              [ j \in 1..Len(KeptFirst(result)) |->
                                    result[KeptFirst(result)[j]][1] ]
                         /\ _target' =
                              [ j \in 1..Len(KeptSecond(result)) |->
                                    result[KeptSecond(result)[j]][2] ]
                    ELSE /\ _target' =
                              [ j \in 1..Len(KeptWhole(result)) |->
                                    result[KeptWhole(result)[j]] ]
                         /\ UNCHANGED _target_txt
                 /\ ds_pc' = "ready"
                 /\ n_processes' = -1
                 /\ UNCHANGED << ds_error, top_n >>
    /\ UNCHANGED << ds_tokenize, _source_txt, _source, target_none,
                    source_from, source_txt_from, last_op, last_arg, ret, len_before >>
    /\ UNCHANGED << ppvars, itvars >>

\* Mutant of Slice0: the last n entries are kept instead of the first n.
SliceLast(seq, n) ==
    IF n >= 0 THEN SubSeq(seq, Len(seq) - Min(n, Len(seq)) + 1, Len(seq))
    ELSE SubSeq(seq, 1, Max(Len(seq) + n, 0))

\* Python's seq[0:n]
Slice0(seq, n) ==
    IF n >= 0 THEN SubSeq(seq, 1, Min(n, Len(seq)))
    ELSE SubSeq(seq, 1, Max(Len(seq) + n, 0))

\* the arguments tried: negative ones, every length up to the current one,
\* and one past it
ShortenArgs == (-1)..(Len(_source) + 1)

\* lines 210-211: shorten(None)
ShortenNone ==
    /\ ds_pc = "ready"
    /\ last_op' = "shorten_none"
    /\ last_arg' = 0
    /\ ret' = [ kind |-> "self" ]
    /\ len_before' = Len(_source)
    /\ UNCHANGED << ds_pc, ds_error, top_n, ds_tokenize, n_processes,
                    _source_txt, _source, _target_txt, _target, target_none,
                    source_from, source_txt_from >>
    /\ UNCHANGED << ppvars, itvars >>

\* lines 212-221: shorten(n)
Shorten ==
    /\ ds_pc = "ready"
    /\ \E n \in ShortenArgs :
        /\ last_arg' = n
        /\ IF n <= Len(_source)
           THEN /\ _source' = Slice0(_source, n)
                /\ _source_txt' = Slice0(_source_txt, n)
                /\ source_from' = Slice0(source_from, n)
                /\ source_txt_from' = Slice0(source_txt_from, n)
                /\ IF ~target_none
                   THEN /\ _target' = Slice0(_target, n)
                        /\ _target_txt' = Slice0(_target_txt, n)
                   ELSE UNCHANGED << _target, _target_txt >>
           ELSE UNCHANGED << _source, _source_txt, source_from, source_txt_from,
                             _target, _target_txt >>
    /\ last_op' = "shorten"
    /\ len_before' = Len(_source)
    /\ ret' = [ kind |-> "self" ]
    /\ UNCHANGED << ds_pc, ds_error, top_n, ds_tokenize, n_processes,
                    target_none >>
    /\ UNCHANGED << ppvars, itvars >>

\* line 236
Length == Len(_source)

\* seq[idx] for idx >= 0 raises IndexError past the end
InRange(seq, idx) == idx + 1 <= Len(seq)

\* lines 223-233
GetItemResult(idx) ==
    IF target_none
    THEN IF InRange(_source, idx) /\ InRange(_source_txt, idx)
         THEN [ kind |-> "dict",
                src |-> _source[idx + 1], src_txt |-> _source_txt[idx + 1] ]
         ELSE [ kind |-> "IndexError" ]
    ELSE IF /\ InRange(_source, idx) /\ InRange(_source_txt, idx)
            /\ InRange(_target, idx) /\ InRange(_target_txt, idx)
         THEN [ kind |-> "dict",
                src |-> _source[idx + 1], src_txt |-> _source_txt[idx + 1],
                tgt |-> _target[idx + 1], tgt_txt |-> _target_txt[idx + 1] ]
         ELSE [ kind |-> "IndexError" ]

GetItem ==
    /\ ds_pc = "ready"
    /\ \E idx \in 0..Len(_source) :
        /\ last_arg' = idx
        /\ ret' = GetItemResult(idx)
    /\ last_op' = "getitem"
    /\ len_before' = Len(_source)
    /\ UNCHANGED << ds_pc, ds_error, top_n, ds_tokenize, n_processes,
                    _source_txt, _source, _target_txt, _target, target_none,
                    source_from, source_txt_from >>
    /\ UNCHANGED << ppvars, itvars >>

\* lines 250-257: the records written, in order
JsonLines ==
    IF target_none
    THEN [ i \in 1..Len(_source) |-> [ src |-> _source[i] ] ]
    ELSE [ i \in 1..Min(Len(_source), Len(_target)) |->
             [ src |-> _source[i], tgt |-> _target[i] ] ]

SaveToJsonl ==
    /\ ds_pc = "ready"
    /\ ret' = [ kind |-> "file", records |-> JsonLines ]
    /\ last_op' = "save_to_jsonl"
    /\ last_arg' = 0
    /\ len_before' = Len(_source)
    /\ UNCHANGED << ds_pc, ds_error, top_n, ds_tokenize, n_processes,
                    _source_txt, _source, _target_txt, _target, target_none,
                    source_from, source_txt_from >>
    /\ UNCHANGED << ppvars, itvars >>

InitDS == PPIdle /\ DSNew /\ ItNew

NextDS ==
    \/ ReadSource
    \/ ReadTarget
    \/ CheckLengths
    \/ ProcessSource
    \/ ProcessTarget
    \/ ShortenNone
    \/ Shorten
    \/ GetItem
    \/ SaveToJsonl

SpecDS == InitDS /\ [][NextDS]_vars

\* -------------------------------------------- IterableSummarizationDataset
ItTopNs == (-2)..MaxIterFile

\* lines 9-12: the lines of the source file; a last line may lack its break
ItLines == FileLines \cup { <<"b">> }

\* lines 81-82: how many lines itertools.islice lets through
Limit(lines, n) == IF n = -1 THEN Len(lines) ELSE Min(n, Len(lines))

\* lines 79-96
ItConstruct ==
    /\ it_pc = "new"
    /\ \E lines \in SeqsUpTo(ItLines, MaxIterFile), n \in ItTopNs,
          pipeline \in Pipelines, tok \in Tokenizers,
          target \in BOOLEAN, tlines \in SeqsUpTo(FileLines, MaxTargetFile) :
        /\ target \/ tlines = <<>>
        /\ IF n < -1
           THEN /\ it_pc' = "failed"
                /\ UNCHANGED << it_lines, it_top_n, it_preprocessing,
                                it_tokenization, tgt_present, tgt_lines >>
           ELSE /\ it_pc' = "ready"
                /\ it_lines' = lines
                /\ it_top_n' = n
                /\ it_preprocessing' = pipeline
                /\ it_tokenization' = tok
                /\ tgt_present' = target
                /\ tgt_lines' = tlines
    /\ UNCHANGED << src_pos, src_done, passes, tgt_pos, tgt_done, yielded >>
    /\ UNCHANGED << ppvars, dsvars >>

\* Mutant of PassSource: every __iter__ call reopens the file.
PassSourceReopened(pos, done) == << 0, FALSE >>

\* lines 98-100: the generator __iter__ returns loops over the one generator
\* self._source, from wherever that stands
PassSource(pos, done) == << pos, done >>

\* __iter__()
IterCall ==
    /\ it_pc = "ready"
    /\ Len(passes) < MaxPasses
    /\ passes' = Append(passes, "open")
    /\ src_pos' = PassSource(src_pos, src_done)[1]
    /\ src_done' = PassSource(src_pos, src_done)[2]
    /\ UNCHANGED << it_pc, it_lines, it_top_n, it_preprocessing, it_tokenization,
                    tgt_present, tgt_lines, tgt_pos, tgt_done, yielded >>
    /\ UNCHANGED << ppvars, dsvars >>

\* next(self._source), lines 36-42 over lines 9-12 and 81-82: the item
\* yielded, or the generator's end (no line left, or _preprocess raised)
SourceYields ==
    /\ ~src_done
    /\ src_pos < Limit(it_lines, it_top_n)
    /\ ~PreprocessRaises(it_lines[src_pos + 1], it_preprocessing)

PullSource ==
    IF src_done
    THEN UNCHANGED << src_pos, src_done, yielded >>
    ELSE IF src_pos < Limit(it_lines, it_top_n)
         THEN /\ src_pos' = src_pos + 1
              /\ IF PreprocessRaises(it_lines[src_pos + 1], it_preprocessing)
                 THEN src_done' = TRUE /\ UNCHANGED yielded
                 ELSE /\ yielded' = Append(yielded,
                            [ line |-> src_pos + 1,
                              item |-> _preprocess(it_lines[src_pos + 1],
                                           it_preprocessing, it_tokenization) ])
                      /\ UNCHANGED src_done
         ELSE src_done' = TRUE /\ UNCHANGED << src_pos, yielded >>

\* next() on a generator __iter__ returned
PassNext ==
    /\ it_pc = "ready"
    /\ \E p \in 1..Len(passes) :
        /\ passes[p] = "open"
        /\ PullSource
        /\ passes' = IF SourceYields THEN passes ELSE [ passes EXCEPT ![p] = "done" ]
    /\ UNCHANGED << it_pc, it_lines, it_top_n, it_preprocessing, it_tokenization,
                    tgt_present, tgt_lines, tgt_pos, tgt_done >>
    /\ UNCHANGED << ppvars, dsvars >>

\* next(get_source()), lines 102-103
SourceNext ==
    /\ it_pc = "ready"
    /\ PullSource
    /\ UNCHANGED << it_pc, it_lines, it_top_n, it_preprocessing, it_tokenization,
                    passes, tgt_present, tgt_lines, tgt_pos, tgt_done >>
    /\ UNCHANGED << ppvars, dsvars >>

\* next(get_target()), lines 105-106 over lines 88-94 (the item is not kept)
TargetNext ==
    /\ it_pc = "ready"
    /\ tgt_present
    /\ ~tgt_done
    /\ IF tgt_pos < Limit(tgt_lines, it_top_n)
       THEN tgt_pos' = tgt_pos + 1 /\ UNCHANGED tgt_done
       ELSE tgt_done' = TRUE /\ UNCHANGED tgt_pos
    /\ UNCHANGED << it_pc, it_lines, it_top_n, it_preprocessing, it_tokenization,
                    src_pos, src_done, passes, tgt_present, tgt_lines, yielded >>
    /\ UNCHANGED << ppvars, dsvars >>

InitIter == PPIdle /\ DSNew /\ ItNew

NextIter ==
    \/ ItConstruct
    \/ IterCall
    \/ PassNext
    \/ SourceNext
    \/ TargetNext

SpecIter == InitIter /\ [][NextIter]_vars

\* ---------------------------------------------- claims, parallel_preprocess
CallEnded == pc \in { "returned", "raised" }

SomeItemRaises ==
    \E i \in 1..Len(input_data) : PreprocessRaises(input_data[i], preprocess_pipeline)

\* C1: for a non-empty input and num_pool = -1 the call returns a list as
\* long as the input whose element i is _preprocess of input element i,
\* whatever the order in which the workers finished; it raises only when an
\* item's own processing raises.
C1_OrderedResults ==
    (CallEnded /\ num_pool_arg = -1 /\ input_data # <<>>) =>
        IF SomeItemRaises
        THEN pc = "raised"
        ELSE /\ pc = "returned"
             /\ Len(results) = Len(input_data)
             /\ \A i \in 1..Len(input_data) :
                    results[i] =
                        _preprocess(input_data[i], preprocess_pipeline, word_tokenize)

\* C1 witness: a call with num_pool = -1 has returned two different results
\* although the second item's worker finished first.
C1_Witness ==
    /\ pc = "returned"
    /\ num_pool_arg = -1
    /\ order = << 2, 1 >>
    /\ results[1] # results[2]
    /\ preprocess_pipeline = << "strip" >>

\* C2: for an empty input the call returns an empty list and does not raise,
\* for every value of num_pool.
C2_EmptyInputReturnsEmpty ==
    (CallEnded /\ input_data = <<>>) => (pc = "returned" /\ results = <<>>)

\* C9: every pool a call created is closed and joined by the time the call
\* ends, on the failure path too.
C9_PoolTornDown ==
    CallEnded => pool \in { "none", "joined" }

\* C10: once work is dispatched for a non-empty input and a worker count of
\* -1 or a positive integer, the pool size is min(resolved worker count,
\* number of items), at least 1, and the chunk size is at least 1.
C10_PoolAndChunkSize ==
    (/\ pc \notin { "idle", "create" }
     /\ input_data # <<>>
     /\ (num_pool_arg = -1 \/ num_pool_arg >= 1)) =>
        /\ pool # "none"
        /\ num_pool = Min(workers, Len(input_data))
        /\ num_pool >= 1
        /\ (pc # "dispatch" => chunksize >= 1)

\* C10 witness: fewer items than requested workers, and the map is running.
C10_Witness ==
    /\ pc = "map"
    /\ Len(input_data) = 1
    /\ workers = 2
    /\ num_pool = 1
    /\ chunksize = 1

\* parallel_preprocess as SummarizationDataset uses it (PPRaises, PPResult)
\* is what a call on the pool does.
PP_Summary ==
    CallEnded =>
        /\ (pc = "raised") = PPRaises(input_data, preprocess_pipeline, workers, 1)
        /\ (pc = "returned" =>
                results = PPResult(input_data, preprocess_pipeline, word_tokenize))

\* --------------------------------------------- claims, SummarizationDataset
\* C3: when a target corpus is supplied and its line count differs from the
\* source's, the constructor fails at the length check, and no instance is
\* ever produced from a failed construction.
C3_MismatchIsFatal ==
    /\ [][ (/\ ds_pc = "check"
            /\ Len(_target_txt) # 0
            /\ Len(_source_txt) # Len(_target_txt)) =>
                (ds_pc' = "failed" /\ ds_error' = "AssertionError") ]_vars
    /\ [][ ds_pc = "failed" => ds_pc' = "failed" ]_vars

\* C3 witness: three source lines against two target lines, and the
\* constructor has failed on the assertion.
C3_Witness ==
    /\ ds_pc = "failed"
    /\ ds_error = "AssertionError"
    /\ Len(_source_txt) = 3
    /\ Len(_target_txt) = 2

ShortenedBy(n) == last_op' = "shorten" /\ last_arg' = n

OwnedUnchanged == UNCHANGED << _source, _source_txt, _target, _target_txt >>

FirstN(seq, n) == SubSeq(seq, 1, Min(n, Len(seq)))

KeepsFirstN(n) ==
    /\ Len(_source') = n
    /\ _source' = FirstN(_source, n)
    /\ _source_txt' = FirstN(_source_txt, n)
    /\ ~target_none => /\ _target' = FirstN(_target, n)
                       /\ _target_txt' = FirstN(_target_txt, n)

\* C4 as claimed: shorten(n) with n <= L leaves length n and the first n
\* entries of every owned sequence; with n > L or n null it changes nothing;
\* a second shorten(n) with the same n changes nothing.
C4_ShortenAnyN ==
    [][ /\ \A n \in ShortenArgs :
            ShortenedBy(n) =>
                IF n <= Len(_source) THEN KeepsFirstN(n) ELSE OwnedUnchanged
        /\ last_op' = "shorten_none" => OwnedUnchanged
        /\ (last_op = "shorten" /\ ShortenedBy(last_arg)) => OwnedUnchanged ]_vars

\* C4 amended: the same for 0 <= n <= L (a sequence with fewer than n
\* entries keeps all of them), for n > L and for n null; a second shorten(n)
\* with the same n >= 0 changes nothing.
C4_ShortenNonNegative ==
    [][ /\ \A n \in ShortenArgs :
            ShortenedBy(n) =>
                IF 0 <= n /\ n <= Len(_source) THEN KeepsFirstN(n)
                ELSE IF n > Len(_source) THEN OwnedUnchanged
                ELSE TRUE
        /\ last_op' = "shorten_none" => OwnedUnchanged
        /\ (last_op = "shorten" /\ last_arg >= 0 /\ ShortenedBy(last_arg)) =>
                OwnedUnchanged ]_vars

\* C4 witness: a dataset of two paired examples has been cut to its first
\* one by shorten(1).
C4_Witness ==
    /\ last_op = "shorten"
    /\ last_arg = 1
    /\ len_before = 2
    /\ Len(_source) = 1
    /\ source_from = << 1 >>
    /\ ~target_none
    /\ Len(_target) = 1

\* C5: save_to_jsonl writes exactly length() records, record i holding the
\* src (and, with a target corpus, the tgt) that get(i) returns, and no tgt
\* without a target corpus.
C5_SaveMatchesGet ==
    last_op = "save_to_jsonl" =>
        /\ Len(ret.records) = Length
        /\ \A i \in 1..Len(ret.records) :
            /\ GetItemResult(i - 1).kind = "dict"
            /\ ret.records[i].src = GetItemResult(i - 1).src
            /\ IF target_none
               THEN DOMAIN ret.records[i] = { "src" }
               ELSE ret.records[i].tgt = GetItemResult(i - 1).tgt

\* C7: get(i) for 0 <= i < length() returns a record, with the two source
\* fields without a target corpus and all four fields with one.
C7_GetWithinLength ==
    (last_op = "getitem" /\ last_arg < Length) =>
        /\ ret.kind = "dict"
        /\ DOMAIN ret = IF target_none THEN { "kind", "src", "src_txt" }
                        ELSE { "kind", "src", "src_txt", "tgt", "tgt_txt" }

\* C8: the source text list and the processed source list have the same
\* length and entry i of both comes from the same input line.
C8_SourceAligned ==
    ds_pc = "ready" =>
        /\ Len(_source_txt) = Len(_source)
        /\ source_txt_from = source_from

\* ------------------------------------- claims, IterableSummarizationDataset
\* C6: once an iteration has run self._source to its end nothing is yielded
\* any more, by __iter__ or by get_source; and over the instance's life the
\* items yielded are those of the first top_n lines, each at most once and in
\* file order.
C6_ExhaustionIsPermanent ==
    /\ [][ src_done => (yielded' = yielded /\ src_done') ]_vars
    /\ [](/\ Len(yielded) <= Limit(it_lines, it_top_n)
          /\ \A j \in 1..Len(yielded) :
                /\ yielded[j].line = j
                /\ yielded[j].item =
                     _preprocess(it_lines[j], it_preprocessing, it_tokenization))

\* C6 witness: a first pass has run to exhaustion over two lines, and a
\* second pass over the same instance has ended with nothing more yielded.
C6_Witness ==
    /\ src_done
    /\ passes = << "done", "done" >>
    /\ it_top_n = 2
    /\ Len(it_lines) = 2
    /\ Len(yielded) = 2

====
